---- MODULE Spec2Model ----
(***************************************************************************)
(* Model of bin/compton-convgen.py, the convolution kernel generator.      *)
(*                                                                         *)
(* The program is one run of _main: the parsed command line is validated,  *)
(* the factors are read, the kernel is generated by gen_gaussian, gen_box  *)
(* or _gen_invalid, and the matrix is printed by mdumpcompton or mdump.    *)
(* The functions of the program are operators; the steps of a run are the  *)
(* actions.  A second specification, CallSpec, calls mbuild and mmirror4   *)
(* directly, as an importing module can, with arguments _main never        *)
(* passes.                                                                 *)
(*                                                                         *)
(* Python floats are binary floating-point numbers with round-to-nearest-  *)
(* even.  They are modelled with the same arithmetic at a mantissa of      *)
(* MantBits bits instead of 53 (TLC's integers have 32 bits), and the      *)
(* ".6f" of the compact format is scaled with it to FmtDecimals decimals,  *)
(* so that, as in the program, one unit of the printed precision is many   *)
(* units in the last place of a float.                                     *)
(***************************************************************************)
EXTENDS Integers, Sequences, FiniteSets

\* ------------------------------------------------------------------ bounds
\* Widths and heights on the command line range over MinDim..MaxDim.
MaxDim == 5
MinDim == 0 - 1

\* ------------------------------------------------------------------ floats
\* Bits of the mantissa of a float (53 in the program).
MantBits == 8
\* Decimals printed by mdumpcompton (".6f" in the program).
FmtDecimals == 1
\* Significant digits printed by mdump ("13.6g" in the program).
FmtDigits == 2

\* A finite float is m * 2^e, with m = 0 or 2^(MantBits-1) <= |m| < 2^MantBits.
Fin(m, e) == [k |-> "fin", m |-> m, e |-> e]
Inf == [k |-> "inf", m |-> 1, e |-> 0]
NaN == [k |-> "nan", m |-> 0, e |-> 0]
Zero == Fin(0, 0)

Abs(n) == IF n < 0 THEN 0 - n ELSE n
Sgn(n) == IF n < 0 THEN 0 - 1 ELSE 1
IsZero(a) == a.k = "fin" /\ a.m = 0

\* n/d * 2^e (n, d > 0) rounded to the nearest float, ties to even.
RECURSIVE RoundPos(_, _, _)
RoundPos(n, d, e) ==
    IF n >= d * 2^MantBits THEN RoundPos(n, 2 * d, e + 1)
    ELSE IF n < d * 2^(MantBits - 1) THEN RoundPos(2 * n, d, e - 1)
    ELSE LET q == n \div d
             r == n - q * d
             f == IF 2 * r > d \/ (2 * r = d /\ q % 2 = 1) THEN q + 1 ELSE q
         IN  IF f = 2^MantBits THEN Fin(2^(MantBits - 1), e + 1) ELSE Fin(f, e)

\* float(n) of an int n.
FromInt(n) ==
    IF n = 0 THEN Zero
    ELSE LET r == RoundPos(Abs(n), 1, 0) IN Fin(Sgn(n) * r.m, r.e)

One == FromInt(1)
Two == FromInt(2)

\* a * b on floats.
FMul(a, b) ==
    IF a.k = "nan" \/ b.k = "nan" THEN NaN
    ELSE IF a.k = "inf" \/ b.k = "inf"
         THEN IF IsZero(a) \/ IsZero(b) THEN NaN ELSE Inf
    ELSE IF a.m = 0 \/ b.m = 0 THEN Zero
    ELSE LET r == RoundPos(Abs(a.m) * Abs(b.m), 1, a.e + b.e)
         IN  Fin(Sgn(a.m) * Sgn(b.m) * r.m, r.e)

\* a / b on floats, b not zero (Python raises ZeroDivisionError on b = 0
\* before dividing: the callers test IsZero(b)).
FDiv(a, b) ==
    IF a.k = "nan" \/ b.k = "nan" THEN NaN
    ELSE IF a.k = "inf" THEN (IF b.k = "inf" THEN NaN ELSE Inf)
    ELSE IF b.k = "inf" THEN Zero
    ELSE IF a.m = 0 THEN Zero
    ELSE LET r == RoundPos(Abs(a.m), Abs(b.m), a.e - b.e)
         IN  Fin(Sgn(a.m) * Sgn(b.m) * r.m, r.e)

\* math.pi and math.e, rounded to the mantissa.
MathPi == Fin(201, 0 - 6)
MathE == Fin(174, 0 - 6)

\* pow(math.e, x) for x <= 0, rounded to the mantissa: the values of the
\* library function at the arguments -(diffx^2 + diffy^2) / (2 sigma^2) that
\* the sigmas of FloatLiterals and the default produce for offsets of up to 3.
PowE(x) ==
    IF x.k = "nan" THEN NaN
    ELSE IF IsZero(x) THEN One
    ELSE CASE x.k = "inf" -> Zero
      [] x = Fin(0 - 128, 0 - 10) -> Fin(226, 0 - 8)
      [] x = Fin(0 - 128, 0 - 9) -> Fin(199, 0 - 8)
      [] x = Fin(0 - 217, 0 - 9) -> Fin(168, 0 - 8)
      [] x = Fin(0 - 128, 0 - 8) -> Fin(155, 0 - 8)
      [] x = Fin(0 - 160, 0 - 8) -> Fin(137, 0 - 8)
      [] x = Fin(0 - 181, 0 - 8) -> Fin(252, 0 - 9)
      [] x = Fin(0 - 217, 0 - 8) -> Fin(219, 0 - 9)
      [] x = Fin(0 - 128, 0 - 7) -> Fin(188, 0 - 9)
      [] x = Fin(0 - 144, 0 - 7) -> Fin(166, 0 - 9)
      [] x = Fin(0 - 160, 0 - 7) -> Fin(147, 0 - 9)
      [] x = Fin(0 - 181, 0 - 7) -> Fin(249, 0 - 10)
      [] x = Fin(0 - 208, 0 - 7) -> Fin(202, 0 - 10)
      [] x = Fin(0 - 217, 0 - 7) -> Fin(188, 0 - 10)
      [] x = Fin(0 - 128, 0 - 6) -> Fin(139, 0 - 10)
      [] x = Fin(0 - 136, 0 - 6) -> Fin(245, 0 - 11)
      [] x = Fin(0 - 144, 0 - 6) -> Fin(216, 0 - 11)
      [] x = Fin(0 - 160, 0 - 6) -> Fin(168, 0 - 11)
      [] x = Fin(0 - 181, 0 - 6) -> Fin(242, 0 - 12)
      [] x = Fin(0 - 217, 0 - 6) -> Fin(138, 0 - 12)
      [] x = Fin(0 - 226, 0 - 6) -> Fin(240, 0 - 13)
      [] x = Fin(0 - 244, 0 - 6) -> Fin(181, 0 - 13)
      [] x = Fin(0 - 128, 0 - 5) -> Fin(150, 0 - 13)
      [] x = Fin(0 - 136, 0 - 5) -> Fin(234, 0 - 14)
      [] x = Fin(0 - 144, 0 - 5) -> Fin(182, 0 - 14)
      [] x = Fin(0 - 160, 0 - 5) -> Fin(221, 0 - 15)
      [] x = Fin(0 - 176, 0 - 5) -> Fin(134, 0 - 15)
      [] x = Fin(0 - 181, 0 - 5) -> Fin(229, 0 - 16)
      [] x = Fin(0 - 204, 0 - 5) -> Fin(223, 0 - 17)
      [] x = Fin(0 - 208, 0 - 5) -> Fin(197, 0 - 17)
      [] x = Fin(0 - 226, 0 - 5) -> Fin(224, 0 - 18)
      [] x = Fin(0 - 244, 0 - 5) -> Fin(128, 0 - 18)
      [] x = Fin(0 - 144, 0 - 4) -> Fin(129, 0 - 20)
      [] x = Fin(0 - 147, 0 - 4) -> Fin(214, 0 - 21)
      [] x = Fin(0 - 204, 0 - 4) -> Fin(194, 0 - 26)

\* ----------------------------------------------------------------- formats
\* Integer nearest to n/d (n >= 0, d > 0), ties to even.
RoundDiv(n, d) ==
    LET q == n \div d
        r == n - q * d
    IN  IF 2 * r > d \/ (2 * r = d /\ q % 2 = 1) THEN q + 1 ELSE q

\* A printed number: n units of 10^x (n carries the sign), or "inf", "nan".
Dec(n, x) == [k |-> "dec", n |-> n, x |-> x]
Txt(s) == [k |-> s, n |-> 0, x |-> 0]

\* format(v, ".6f"): v rounded to FmtDecimals decimals.
FormatF(v) ==
    IF v.k # "fin" THEN Txt(v.k)
    ELSE IF v.e >= 0 THEN Dec(v.m * 2^v.e * 10^FmtDecimals, 0 - FmtDecimals)
    ELSE IF 0 - v.e >= MantBits + 1 + 4 * FmtDecimals THEN Dec(0, 0 - FmtDecimals)
    ELSE Dec(Sgn(v.m) * RoundDiv(Abs(v.m) * 10^FmtDecimals, 2^(0 - v.e)),
             0 - FmtDecimals)

\* n/d (n, d > 0) rounded to FmtDigits significant digits, times 10^x.
RECURSIVE SigDigits(_, _, _)
SigDigits(n, d, x) ==
    IF n \div 10^FmtDigits >= d THEN SigDigits(n, 10 * d, x + 1)
    ELSE IF n \div 10^(FmtDigits - 1) < d
         THEN IF d % 2 = 0 THEN SigDigits(5 * n, d \div 2, x - 1)
              ELSE SigDigits(10 * n, d, x - 1)
    ELSE LET f == RoundDiv(n, d)
         IN  IF f = 10^FmtDigits THEN Dec(10^(FmtDigits - 1), x + 1) ELSE Dec(f, x)

\* format(v, "13.6g"): v rounded to FmtDigits significant digits.
FormatG(v) ==
    IF v.k # "fin" THEN Txt(v.k)
    ELSE IF v.m = 0 THEN Dec(0, 0)
    ELSE LET r == IF v.e >= 0 THEN SigDigits(Abs(v.m) * 2^v.e, 1, 0)
                  ELSE SigDigits(Abs(v.m), 2^(0 - v.e), 0)
         IN  Dec(Sgn(v.m) * r.n, r.x)

\* -------------------------------------------------------------- exceptions
Exc(class, desc) == [class |-> class, args |-> <<desc>>]
NoExc == [class |-> "", args |-> <<>>]
CGBadArg(desc) == Exc("CGBadArg", desc)
ZeroDivisionError == Exc("ZeroDivisionError", "float division by zero")
ValueError == Exc("ValueError", "could not convert string to float")

\* The outcome of a call: a returned value or a raised exception.
Ret(v) == [ok |-> TRUE, val |-> v, exc |-> NoExc]
Raise(e) == [ok |-> FALSE, val |-> <<>>, exc |-> e]

\* ---------------------------------------------------------------- matrices
\* A matrix is a list of rows, indexed from 0 as in the program.
None == <<>>
Height(matrix) == Cardinality(DOMAIN matrix)
Width(matrix) == Cardinality(DOMAIN matrix[0])

\* int(n / 2): the quotient truncated toward zero.
IntHalf(n) == IF n >= 0 THEN n \div 2 ELSE 0 - ((0 - n) \div 2)

\* Variant of mbuild that builds the "NxN" matrix of its docstring.
mbuild_Square(width, height) ==
    [i \in 0..(width - 1) |-> [j \in 0..(width - 1) |-> Zero]]

mbuild(width, height) ==
    [i \in 0..(height - 1) |-> [j \in 0..(width - 1) |-> Zero]]

\* Variant of mnormalize that returns a matrix with a zero centre as it is.
mnormalize_ZeroUnchecked(matrix) ==
    LET center == matrix[IntHalf(Height(matrix))][IntHalf(Width(matrix))]
        factor == FDiv(One, center)
    IN  IF IsZero(center) \/ One = factor THEN Ret(matrix)
        ELSE Ret([i \in DOMAIN matrix |->
                    [j \in DOMAIN matrix[i] |-> FMul(matrix[i][j], factor)]])

mnormalize(matrix) ==
    LET width == Width(matrix)
        height == Height(matrix)
        center == matrix[IntHalf(height)][IntHalf(width)]
        factor == FDiv(One, center)
    IN  IF IsZero(center) THEN Raise(ZeroDivisionError)
        ELSE IF One = factor THEN Ret(matrix)
        ELSE Ret([i \in 0..(height - 1) |->
                    [j \in 0..(width - 1) |-> FMul(matrix[i][j], factor)]])

\* Variant of min that folds toward the farther edge.
Min_Farther(a, b) == IF a <= b THEN b ELSE a

Min(a, b) == IF a <= b THEN a ELSE b

\* The loop of mmirror4 from its k-th iteration (i = k div width,
\* j = k mod width) on: every iteration reads and writes the same matrix.
RECURSIVE Mirror4From(_, _)
Mirror4From(matrix, k) ==
    LET width == Width(matrix)
        height == Height(matrix)
        i == k \div width
        j == k % width
        x == Min(i, height - 1 - i)
        y == Min(j, width - 1 - j)
    IN  IF k >= width * height THEN matrix
        ELSE Mirror4From([matrix EXCEPT ![i][j] = matrix[x][y]], k + 1)

\* Variant of mmirror4 whose row fold is off by one: x = min(i, height - i).
RECURSIVE Mirror4OffByOneFrom(_, _)
Mirror4OffByOneFrom(matrix, k) ==
    LET width == Width(matrix)
        height == Height(matrix)
        i == k \div width
        j == k % width
        x == Min(i, height - i)
        y == Min(j, width - 1 - j)
    IN  IF k >= width * height THEN matrix
        ELSE Mirror4OffByOneFrom([matrix EXCEPT ![i][j] = matrix[x][y]], k + 1)

mmirror4_OffByOne(matrix) == Mirror4OffByOneFrom(matrix, 0)

mmirror4(matrix) == Mirror4From(matrix, 0)

\* ------------------------------------------------------- kernel generators
\* The value gen_gaussian stores at offset (diffx, diffy) from the centre.
GaussianValue(sigma, diffx, diffy) ==
    LET norm == FMul(FMul(Two, MathPi), sigma)
        denom == FMul(FMul(Two, sigma), sigma)
        expo == FDiv(FromInt(0 - (diffx * diffx + diffy * diffy)), denom)
    IN  IF IsZero(norm) \/ IsZero(denom) THEN Raise(ZeroDivisionError)
        ELSE Ret(FMul(FDiv(One, norm), PowE(expo)))

\* The loops of gen_gaussian over the top-left quadrant of result.
GaussianFill(result, size, sigma) ==
    LET half == IntHalf(size)
        Cell(i, j) == GaussianValue(sigma, i - half, j - half)
    IN  IF ~Cell(0, 0).ok THEN Raise(Cell(0, 0).exc)
        ELSE Ret([i \in 0..(size - 1) |-> [j \in 0..(size - 1) |->
                    IF i <= half /\ j <= half THEN Cell(i, j).val
                    ELSE result[i][j]]])

\* Variant of gen_box that leaves the matrix as mbuild made it.
gen_box_Unfilled(width, height) == mbuild(width, height)

gen_box(width, height) ==
    [i \in 0..(height - 1) |-> [j \in 0..(width - 1) |-> One]]

\* Variant of the lookup whose default is gen_box.
Dispatch_DefaultBox(type) ==
    IF type = "gaussian" THEN "gen_gaussian" ELSE "gen_box"

\* funcs.get(args.type, _gen_invalid)
Dispatch(type) ==
    CASE type = "gaussian" -> "gen_gaussian"
      [] type = "box" -> "gen_box"
      [] OTHER -> "gen_invalid"

\* ----------------------------------------------------------------- factors
\* A -f argument is a string, modelled as the sequence of its lexemes.
\* The floats that float() reads from a string of one lexeme.
FloatLiterals ==
    [s \in {"1", "2", "1.0859375", "0", "inf"} |->
        CASE s = "1" -> One
          [] s = "2" -> Two
          [] s = "1.0859375" -> Fin(139, 0 - 7)
          [] s = "0" -> Zero
          [] s = "inf" -> Inf]

\* float(s): the strings drawn here are a literal of FloatLiterals or no
\* number at all.
PyFloat(s) ==
    IF Len(s) = 1 /\ s[1] \in DOMAIN FloatLiterals THEN Ret(FloatLiterals[s[1]])
    ELSE Raise(ValueError)

\* s.partition('='): the parts before and after the first '='.
RECURSIVE Find(_, _, _)
Find(s, c, i) ==
    IF i > Len(s) THEN 0 ELSE IF s[i] = c THEN i ELSE Find(s, c, i + 1)

Partition(s) ==
    LET at == Find(s, "=", 1)
    IN  IF at = 0 THEN <<s, <<>>, <<>>>>
        ELSE <<SubSeq(s, 1, at - 1), <<"=">>, SubSeq(s, at + 1, Len(s))>>

EmptyDict == [key \in {} |-> Zero]
DictSet(dict, key, value) ==
    [x \in DOMAIN dict \cup {key} |-> IF x = key THEN value ELSE dict[x]]
DictGet(dict, key, default) == IF key \in DOMAIN dict THEN dict[key] ELSE default

\* The loop of _args_readfactors from the n-th argument on.
RECURSIVE ReadFactorsFrom(_, _, _)
ReadFactorsFrom(lst, n, factors) ==
    IF n > Len(lst) THEN Ret(factors)
    ELSE LET res == Partition(lst[n])
             value == PyFloat(res[3])
         IN  IF res[1] = <<>> THEN Raise(CGBadArg("Factor has no key."))
             ELSE IF res[3] = <<>> THEN Raise(CGBadArg("Factor has no value."))
             ELSE IF ~value.ok THEN Raise(value.exc)
             ELSE ReadFactorsFrom(lst, n + 1, DictSet(factors, res[1], value.val))

args_readfactors(lst) == ReadFactorsFrom(lst, 1, EmptyDict)

\* The default of factors.get('sigma', 0.84089642), rounded to the mantissa.
DefaultSigma == Fin(215, 0 - 8)

\* ------------------------------------------------------------ command line
Types == {"gaussian", "box", "blur"}
Dims == MinDim..MaxDim

\* The -f arguments tried: well-formed ones, and every way of being
\* malformed (no '=', no key, no value, a value that is no number).
FactorArgs ==
    { <<"sigma", "=", "1">>, <<"sigma", "=", "2">>,
      <<"sigma", "=", "1.0859375">>, <<"sigma", "=", "0">>,
      <<"sigma", "=", "inf">>, <<"x", "=", "2">>,
      <<"sigma">>, <<>>, <<"=">>, <<"=", "1">>, <<"sigma", "=">>,
      <<"sigma", "=", "x">>, <<"sigma", "=", "1", "=", "2">> }
RepeatedArgs == { <<"sigma", "=", "1">>, <<"sigma", "=", "2">>, <<"sigma">> }

\* args.factor: None (no -f, the empty sequence here) or a list of arguments.
FactorLists ==
    {<<>>} \cup {<<a>> : a \in FactorArgs}
           \cup {<<a, b>> : a \in RepeatedArgs, b \in RepeatedArgs}

\* The namespace _parse_args returns; an omitted height is None, the empty
\* sequence here, and a supplied one is <<height>>.
ArgSpace ==
    [type : Types, width : Dims, height : {None} \cup {<<h>> : h \in Dims},
     factor : FactorLists, dump_compton : BOOLEAN]

\* ------------------------------------------------------------------- state
VARIABLES
    pc,        \* the statement the run is at
    args,      \* the parsed command line
    width,     \* _main's width
    height,    \* _main's height
    factors,   \* _main's factors
    sigma,     \* gen_gaussian's sigma
    result,    \* the matrix a generator is building (None before mbuild)
    matrix,    \* _main's matrix (None until a generator returns)
    exc,       \* the exception that ended the run, NoExc if none
    out,       \* what has been printed, one entry per print call
    mbuilds,   \* number of calls of mbuild
    cells,     \* the cells mdumpcompton has printed, as <<row, column>>
    i, j,      \* the loop variables of mdumpcompton, mdump and mmirror4
    original   \* the matrix mmirror4 was called with, as it was at the call

vars == <<pc, args, width, height, factors, sigma, result, matrix, exc, out,
          mbuilds, cells, i, j, original>>

Init ==
    /\ pc = "main"
    /\ args \in ArgSpace
    /\ width = 0
    /\ height = 0
    /\ factors = EmptyDict
    /\ sigma = Zero
    /\ result = None
    /\ matrix = None
    /\ exc = NoExc
    /\ out = <<>>
    /\ mbuilds = 0
    /\ cells = <<>>
    /\ i = 0
    /\ j = 0
    /\ original = None

\* An uncaught exception ends the run.
Fail(e) == pc' = "exit" /\ exc' = e

\* "if not height: height = width": None and 0 are both false.
HeightOrDefault(h, w) == IF h = None \/ h[1] = 0 THEN w ELSE h[1]

\* _main, width and height.
MainDims ==
    /\ pc = "main"
    /\ width' = args.width
    /\ height' = HeightOrDefault(args.height, args.width)
    /\ IF ~(width' > 0 /\ height' > 0)
       THEN Fail(CGBadArg("Invalid width/height."))
       ELSE pc' = "readfactors" /\ exc' = exc
    /\ UNCHANGED <<cells, original>>
    /\ UNCHANGED <<args, factors, sigma, result, matrix, out, mbuilds, i, j>>

\* _main, factors = _args_readfactors(args.factor).
MainReadFactors ==
    /\ pc = "readfactors"
    /\ LET r == args_readfactors(args.factor)
       IN  IF r.ok
           THEN factors' = r.val /\ pc' = Dispatch(args.type) /\ exc' = exc
           ELSE factors' = factors /\ Fail(r.exc)
    /\ UNCHANGED <<cells, original>>
    /\ UNCHANGED <<args, width, height, sigma, result, matrix, out, mbuilds, i, j>>

\* Variant of the test that refuses only a kernel higher than wide.
Uneven_OneSided(w, h) == w < h

\* The test of gen_gaussian that refuses a kernel.
Uneven(w, h) == w # h

\* gen_gaussian up to sigma.
GenGaussianCheck ==
    /\ pc = "gen_gaussian"
    /\ IF Uneven(width, height)
       THEN /\ Fail(CGBadArg("Cannot build an uneven Gaussian blur kernel."))
            /\ sigma' = sigma
       ELSE /\ sigma' = DictGet(factors, <<"sigma">>, DefaultSigma)
            /\ pc' = "gaussian_build"
            /\ exc' = exc
    /\ UNCHANGED <<cells, original>>
    /\ UNCHANGED <<args, width, height, factors, result, matrix, out, mbuilds, i, j>>

\* gen_gaussian, result = mbuild(size, size).
GenGaussianBuild ==
    /\ pc = "gaussian_build"
    /\ result' = mbuild(width, width)
    /\ mbuilds' = mbuilds + 1
    /\ pc' = "gaussian_fill"
    /\ UNCHANGED <<cells, original>>
    /\ UNCHANGED <<args, width, height, factors, sigma, matrix, exc, out, i, j>>

\* gen_gaussian, the loops over the quadrant.
GenGaussianFill ==
    /\ pc = "gaussian_fill"
    /\ LET r == GaussianFill(result, width, sigma)
       IN  IF r.ok
           THEN result' = r.val /\ pc' = "gaussian_normalize" /\ exc' = exc
           ELSE result' = result /\ Fail(r.exc)
    /\ UNCHANGED <<cells, original>>
    /\ UNCHANGED <<args, width, height, factors, sigma, matrix, out, mbuilds, i, j>>

\* gen_gaussian, mnormalize(result).
GenGaussianNormalize ==
    /\ pc = "gaussian_normalize"
    /\ LET r == mnormalize(result)
       IN  IF r.ok
           THEN result' = r.val /\ pc' = "gaussian_mirror" /\ exc' = exc
           ELSE result' = result /\ Fail(r.exc)
    /\ UNCHANGED <<cells, original>>
    /\ UNCHANGED <<args, width, height, factors, sigma, matrix, out, mbuilds, i, j>>

\* gen_gaussian, mmirror4(result) and the return to _main.
GenGaussianMirror ==
    /\ pc = "gaussian_mirror"
    /\ result' = mmirror4(result)
    /\ matrix' = result'
    /\ pc' = "dump"
    /\ UNCHANGED <<cells, original>>
    /\ UNCHANGED <<args, width, height, factors, sigma, exc, out, mbuilds, i, j>>

\* gen_box and the return to _main.
GenBox ==
    /\ pc = "gen_box"
    /\ result' = gen_box(width, height)
    /\ mbuilds' = mbuilds + 1
    /\ matrix' = result'
    /\ pc' = "dump"
    /\ UNCHANGED <<cells, original>>
    /\ UNCHANGED <<args, width, height, factors, sigma, exc, out, i, j>>

\* _gen_invalid.
GenInvalid ==
    /\ pc = "gen_invalid"
    /\ Fail(CGBadArg("Unknown kernel type."))
    /\ UNCHANGED <<cells, original>>
    /\ UNCHANGED <<args, width, height, factors, sigma, result, matrix, out,
                   mbuilds, i, j>>

\* -------------------------------------------------------------- serializers
\* One call of print: the pieces of its text, and its end.
Emit(text, end) == [text |-> text, end |-> end]

\* "{},{},".format(width, height)
Header(w, h) == <<Dec(w, 0), Txt(","), Dec(h, 0), Txt(",")>>

\* Variant of the test with width and height exchanged.
SkipCell_Transposed(w, h, row, col) == IntHalf(w) = row /\ IntHalf(h) = col

\* The test of mdumpcompton that skips a cell.
SkipCell(w, h, row, col) == IntHalf(h) = row /\ IntHalf(w) = col

\* _main calls mdumpcompton, which prints the header.
DumpComptonHeader ==
    /\ pc = "dump"
    /\ args.dump_compton
    /\ out' = Append(out, Emit(Header(Width(matrix), Height(matrix)), ""))
    /\ i' = 0
    /\ j' = 0
    /\ pc' = "compton_loop"
    /\ UNCHANGED <<cells, original>>
    /\ UNCHANGED <<args, width, height, factors, sigma, result, matrix, exc, mbuilds>>

\* mdumpcompton, one iteration of the inner loop.
DumpComptonCell ==
    /\ pc = "compton_loop"
    /\ i < Height(matrix)
    /\ IF SkipCell(Width(matrix), Height(matrix), i, j)
       THEN out' = out /\ cells' = cells
       ELSE /\ out' = Append(out, Emit(<<FormatF(matrix[i][j])>>, ","))
            /\ cells' = Append(cells, <<i, j>>)
    /\ IF j + 1 < Width(matrix)
       THEN i' = i /\ j' = j + 1
       ELSE i' = i + 1 /\ j' = 0
    /\ UNCHANGED <<pc, args, width, height, factors, sigma, result, matrix, exc,
                   mbuilds, original>>

\* mdumpcompton, the closing print() and the end of the run.
DumpComptonEnd ==
    /\ pc = "compton_loop"
    /\ i = Height(matrix)
    /\ out' = Append(out, Emit(<<>>, "\n"))
    /\ pc' = "exit"
    /\ UNCHANGED <<cells, original>>
    /\ UNCHANGED <<args, width, height, factors, sigma, result, matrix, exc,
                   mbuilds, i, j>>

\* The prints of mdump for one row.
DumpRow(col) ==
    <<Emit(<<Txt("[ ")>>, "")>>
    \o [n \in 1..Cardinality(DOMAIN col) |->
            Emit(<<FormatG(col[n - 1]), Txt(", ")>>, " ")]
    \o <<Emit(<<Txt("],")>>, "\n")>>

\* _main calls mdump: one iteration of its outer loop; the run ends with
\* the last one.
Mdump ==
    /\ \/ pc = "dump" /\ ~args.dump_compton
       \/ pc = "mdump_loop"
    /\ out' = out \o DumpRow(matrix[i])
    /\ i' = i + 1
    /\ pc' = IF i' < Height(matrix) THEN "mdump_loop" ELSE "exit"
    /\ UNCHANGED <<cells, original>>
    /\ UNCHANGED <<args, width, height, factors, sigma, result, matrix, exc,
                   mbuilds, j>>

Next ==
    \/ MainDims
    \/ MainReadFactors
    \/ GenGaussianCheck
    \/ GenGaussianBuild
    \/ GenGaussianFill
    \/ GenGaussianNormalize
    \/ GenGaussianMirror
    \/ GenBox
    \/ GenInvalid
    \/ DumpComptonHeader
    \/ DumpComptonCell
    \/ DumpComptonEnd
    \/ Mdump

Spec == Init /\ [][Next]_vars

\* ------------------------------------------- mbuild and mmirror4 on their own
\* The functions of the module called directly: mbuild with any width and
\* height of Dims, and mmirror4 with a matrix of any size up to MaxDim.

\* Matrices to mirror: every cell different, only the top-left quadrant
\* (rows and columns up to the middle) set, and every cell 1.0.
Tagged(w, h) ==
    [r \in 0..(h - 1) |-> [c \in 0..(w - 1) |-> FromInt(r * w + c + 1)]]
QuadrantOnly(w, h) ==
    [r \in 0..(h - 1) |-> [c \in 0..(w - 1) |->
        IF r <= IntHalf(h) /\ c <= IntHalf(w) THEN FromInt(r * w + c + 1)
        ELSE Zero]]
Matrices(w, h) == {Tagged(w, h), QuadrantOnly(w, h), gen_box(w, h)}

CallInit ==
    /\ pc = "call_mbuild"
    /\ args = None
    /\ width \in Dims
    /\ height \in Dims
    /\ factors = EmptyDict
    /\ sigma = Zero
    /\ result = None
    /\ matrix = None
    /\ exc = NoExc
    /\ out = <<>>
    /\ mbuilds = 0
    /\ cells = <<>>
    /\ i = 0
    /\ j = 0
    /\ original = None

\* result = mbuild(width, height)
CallMbuild ==
    /\ pc = "call_mbuild"
    /\ result' = mbuild(width, height)
    /\ mbuilds' = mbuilds + 1
    /\ pc' = "built"
    /\ UNCHANGED <<args, width, height, factors, sigma, matrix, exc, out, cells,
                   i, j, original>>

\* The caller sets the cells of the matrix and calls mmirror4(result).
CallMmirror4 ==
    /\ pc = "built"
    /\ width >= 1
    /\ height >= 1
    /\ result' \in Matrices(width, height)
    /\ original' = result'
    /\ i' = 0
    /\ j' = 0
    /\ pc' = "mmirror4_loop"
    /\ UNCHANGED <<args, width, height, factors, sigma, matrix, exc, out,
                   mbuilds, cells>>

\* mmirror4, one iteration of the inner loop.
Mmirror4Cell ==
    /\ pc = "mmirror4_loop"
    /\ i < Height(result)
    /\ LET x == Min(i, Height(result) - 1 - i)
           y == Min(j, Width(result) - 1 - j)
       IN  result' = [result EXCEPT ![i][j] = result[x][y]]
    /\ IF j + 1 < Width(result)
       THEN i' = i /\ j' = j + 1
       ELSE i' = i + 1 /\ j' = 0
    /\ UNCHANGED <<pc, args, width, height, factors, sigma, matrix, exc, out,
                   mbuilds, cells, original>>

\* mmirror4, return matrix.
Mmirror4Return ==
    /\ pc = "mmirror4_loop"
    /\ i = Height(result)
    /\ pc' = "mirrored"
    /\ UNCHANGED <<args, width, height, factors, sigma, result, matrix, exc, out,
                   mbuilds, cells, i, j, original>>

CallNext ==
    \/ CallMbuild
    \/ CallMmirror4
    \/ Mmirror4Cell
    \/ Mmirror4Return

CallSpec == CallInit /\ [][CallNext]_vars

\* --------------------------------------------------------------- invariants
TypeOK ==
    /\ pc \in {"main", "readfactors", "gen_gaussian", "gen_box", "gen_invalid",
               "gaussian_build", "gaussian_fill", "gaussian_normalize",
               "gaussian_mirror", "dump", "compton_loop", "mdump_loop", "exit"}
    /\ args \in ArgSpace
    /\ mbuilds \in 0..1
    /\ (exc # NoExc) => pc = "exit"
\* ------------------------------------------------------------------ claims
\* The error names of the design, as the exceptions of the program.
InvalidDimension == CGBadArg("Invalid width/height.")
AsymmetricKernel == CGBadArg("Cannot build an uneven Gaussian blur kernel.")
UnsupportedKernelType == CGBadArg("Unknown kernel type.")
DegenerateKernel == ZeroDivisionError

Rows(m) == 0..(Height(m) - 1)
Cols(m) == 0..(Width(m) - 1)
Center(m) == m[Height(m) \div 2][Width(m) \div 2]

\* A generator has returned its matrix to _main.
Generated == matrix # None
\* The run has printed a matrix in the compact format, to the end.
CompactDone == pc = "exit" /\ exc = NoExc /\ args.dump_compton

\* C1: every matrix handed to a serializer (a box of any size, a gaussian of
\* any square size, odd or even) has exactly 1.0 at (height//2, width//2).
C1_CenterIsOne == Generated => Center(matrix) = One

\* The k-th cell (k = 0, 1, ...) of a w-wide matrix in row-major order.
CellAt(w, k) == <<k \div w, k % w>>
\* The row-major position of the n-th printed value when the centre is left out.
Unskipped(w, h, n) ==
    LET centre == (h \div 2) * w + (w \div 2)
    IN  IF n - 1 < centre THEN n - 1 ELSE n

\* C2: mdumpcompton prints the header "w,h," and then exactly w*h - 1
\* comma-terminated values: the cells in row-major order without the cell
\* (h//2, w//2), every other cell once.
C2_CompactSerialization ==
    CompactDone =>
        LET w == Width(matrix)
            h == Height(matrix)
        IN  /\ Len(out) = w * h + 1
            /\ out[1] = Emit(Header(w, h), "")
            /\ out[Len(out)] = Emit(<<>>, "\n")
            /\ Len(cells) = w * h - 1
            /\ \A n \in 1..(w * h - 1) :
                  LET c == CellAt(w, Unskipped(w, h, n))
                  IN  /\ cells[n] = c
                      /\ c # <<h \div 2, w \div 2>>
                      /\ out[n + 1] = Emit(<<FormatF(matrix[c[1]][c[2]])>>, ",")

\* C2 witness: a compact dump of a matrix that is not square has ended.
C2_Witness ==
    CompactDone /\ Width(matrix) = 3 /\ Height(matrix) = 2 /\ Len(cells) = 5

\* The matrix a consumer rebuilds from the compact output: the printed
\* values in row-major order, with 1.0 put at (h//2, w//2).
Rebuilt(w, h) ==
    [r \in 0..(h - 1) |-> [c \in 0..(w - 1) |->
        LET k == r * w + c
            centre == (h \div 2) * w + (w \div 2)
        IN  IF k = centre THEN FormatF(One)
            ELSE out[1 + (IF k < centre THEN k + 1 ELSE k)].text[1]]]

\* C3: the matrix rebuilt from a compact output equals, at the printed
\* precision, the matrix that was printed.
C3_RoundTrip ==
    CompactDone =>
        Rebuilt(Width(matrix), Height(matrix))
            = [r \in Rows(matrix) |-> [c \in Cols(matrix) |-> FormatF(matrix[r][c])]]

\* C4: the matrix gen_gaussian returns for an odd size n is unchanged by a
\* horizontal flip, a vertical flip and a rotation by 180 degrees, the
\* paired cells being the same float.
C4_GaussianSymmetric ==
    (Generated /\ args.type = "gaussian" /\ Height(matrix) % 2 = 1) =>
        LET n == Height(matrix)
        IN  /\ Width(matrix) = n
            /\ \A r \in 0..(n - 1), c \in 0..(n - 1) :
                  /\ matrix[r][c] = matrix[n - 1 - r][c]
                  /\ matrix[r][c] = matrix[r][n - 1 - c]
                  /\ matrix[r][c] = matrix[n - 1 - r][n - 1 - c]

\* C4 witness: a 5 x 5 gaussian whose corner, edge and centre differ.
C4_Witness ==
    /\ Generated
    /\ args.type = "gaussian"
    /\ Height(matrix) = 5
    /\ matrix[0][0] # matrix[0][2]
    /\ matrix[0][2] # matrix[2][2]
    /\ matrix[4][4] = matrix[0][0]
\* The command line supplies a width or a height that is not positive.
SuppliedInvalid ==
    args.width <= 0 \/ (args.height # None /\ args.height[1] <= 0)

\* C5: a run whose supplied width or height is <= 0 (a supplied height of 0
\* included) fails with InvalidDimension, builds no matrix and prints
\* nothing; no default replaces the supplied dimension.
C5_InvalidDimensionRejected ==
    SuppliedInvalid =>
        /\ mbuilds = 0
        /\ result = None
        /\ out = <<>>
        /\ pc = "exit" => exc = InvalidDimension

\* C6: gen_gaussian called with width # height fails with AsymmetricKernel,
\* before mbuild is called and before anything is printed.
C6_AsymmetricBeforeBuild ==
    /\ [][(pc = "gen_gaussian" /\ width # height) =>
            /\ pc' = "exit"
            /\ exc' = AsymmetricKernel
            /\ mbuilds' = 0
            /\ result' = None
            /\ matrix' = None
            /\ out' = <<>>]_vars
    /\ [](exc = AsymmetricKernel => (mbuilds = 0 /\ result = None /\ out = <<>>))

\* C6 witness: the request gaussian 5 x 3 has been refused.
C6_Witness ==
    /\ pc = "exit"
    /\ args.type = "gaussian"
    /\ width = 5
    /\ height = 3
    /\ exc = AsymmetricKernel

\* The exception carries the name among its arguments.
Carries(e, name) == \E n \in DOMAIN e.args : e.args[n] = name

UnknownType == args.type \notin {"gaussian", "box"}
\* The dimensions and the factors of the command line pass _main's checks.
ValidRequest ==
    /\ args.width > 0
    /\ HeightOrDefault(args.height, args.width) > 0
    /\ args_readfactors(args.factor).ok

\* C7: a request of a type that is neither "gaussian" nor "box" (and is
\* otherwise valid) fails with UnsupportedKernelType, the error carries the
\* name of the type, no matrix is returned and nothing is printed.
C7_UnknownTypeCarriesName ==
    (UnknownType /\ ValidRequest /\ pc = "exit") =>
        /\ exc = UnsupportedKernelType
        /\ Carries(exc, args.type)
        /\ matrix = None
        /\ out = <<>>

\* C7 as amended: a request of an unknown type never builds, returns or
\* prints a matrix and always fails; when its dimensions and factors are
\* valid the error is CGBadArg("Unknown kernel type."), which does not carry
\* the name of the type.
C7_UnknownTypeFails ==
    UnknownType =>
        /\ mbuilds = 0
        /\ result = None
        /\ matrix = None
        /\ out = <<>>
        /\ pc \in {"main", "readfactors", "gen_invalid", "exit"}
        /\ pc = "exit" =>
              /\ exc # NoExc
              /\ ValidRequest =>
                    (exc = UnsupportedKernelType /\ ~Carries(exc, args.type))

\* C7 witness: a valid request of type "blur" has been refused.
C7_Witness ==
    /\ pc = "exit"
    /\ args.type = "blur"
    /\ ValidRequest
    /\ exc = UnsupportedKernelType

\* A -f argument is malformed: no '=', no key, no value, or a value that
\* is not a number.
Malformed(s) ==
    LET at == Find(s, "=", 1)
    IN  \/ at = 0
        \/ at = 1
        \/ at = Len(s)
        \/ ~PyFloat(SubSeq(s, at + 1, Len(s))).ok

\* C8: _args_readfactors fails with MalformedFactor, an error of the
\* generator's own class, when an argument is malformed in any of the four
\* ways, and returns no factors.
C8_MalformedFactorTyped ==
    (pc \notin {"main", "readfactors"} /\ width > 0 /\ height > 0
     /\ \E n \in DOMAIN args.factor : Malformed(args.factor[n])) =>
        /\ pc = "exit"
        /\ exc.class = "CGBadArg"
        /\ factors = EmptyDict

\* C9: mnormalize of a matrix whose centre cell is 0.0 fails with
\* DegenerateKernel and returns no matrix.
C9_ZeroCenterFails ==
    /\ [][(pc = "gaussian_normalize" /\ IsZero(Center(result))) =>
            /\ pc' = "exit"
            /\ exc' = DegenerateKernel
            /\ result' = result
            /\ matrix' = None]_vars
    /\ []((pc = "gaussian_normalize" /\ IsZero(Center(result))) =>
            ~mnormalize(result).ok)

\* C9 witness: the quadrant was filled (sigma is not 0), its centre was 0.0
\* and mnormalize raised.
C9_Witness ==
    /\ pc = "exit"
    /\ exc = DegenerateKernel
    /\ ~IsZero(sigma)
    /\ Height(result) = 3
    /\ IsZero(Center(result))

\* C10: gen_box returns a width x height matrix of 1.0 in every cell, and
\* mnormalize returns it unchanged.
C10_BoxAllOnes ==
    (Generated /\ args.type = "box") =>
        /\ Height(matrix) = height
        /\ \A r \in Rows(matrix) :
              /\ DOMAIN matrix[r] = 0..(width - 1)
              /\ \A c \in 0..(width - 1) : matrix[r][c] = One
        /\ mnormalize(matrix) = Ret(matrix)

\* C10 witness: a 3 x 2 box has been generated.
C10_Witness ==
    /\ Generated
    /\ args.type = "box"
    /\ Width(matrix) = 3
    /\ Height(matrix) = 2
    /\ matrix[1][2] = One
\* C11: every validation is done before the first matrix is allocated: once
\* mbuild has been called, a run can only fail with DegenerateKernel, the
\* division by a zero centre in mnormalize, whatever the type, the
\* dimensions and the factors are (sigma = 0 included).
C11_ValidationBeforeBuild ==
    [][(mbuilds >= 1 /\ exc' # NoExc) =>
          (pc = "gaussian_normalize" /\ exc' = DegenerateKernel)]_vars

\* The closed-form Gaussian at row r, column c of an n x n kernel, scaled by
\* the centre as mnormalize scales.
DirectGaussian(s, n, r, c) ==
    LET half == n \div 2
        value == GaussianValue(s, r - half, c - half).val
        peak == GaussianValue(s, 0, 0).val
        factor == FDiv(One, peak)
    IN  IF One = factor THEN value ELSE FMul(value, factor)

\* C13: every cell (r, c) of the matrix gen_gaussian returns, for every
\* square size, equals the centre-normalized closed-form Gaussian at offset
\* (r - n//2, c - n//2).
C13_EqualsClosedForm ==
    (Generated /\ args.type = "gaussian") =>
        \A r \in Rows(matrix), c \in Cols(matrix) :
            matrix[r][c] = DirectGaussian(sigma, Height(matrix), r, c)

\* C15: on the quadrant gen_gaussian has filled, for every size, odd or
\* even, mnormalize then mmirror4 gives the same outcome as mmirror4 then
\* mnormalize.
C15_NormalizeMirrorCommute ==
    pc = "gaussian_normalize" =>
        LET first == mnormalize(result)
            second == mnormalize(mmirror4(result))
        IN  IF first.ok THEN second.ok /\ mmirror4(first.val) = second.val
            ELSE ~second.ok
\* The index n of 0..len-1 folded toward the nearer edge.
Fold(n, len) == IF n <= len - 1 - n THEN n ELSE len - 1 - n

\* C12: mmirror4 in place equals mirroring from a separate read buffer: for
\* a matrix of any width and height, every cell (r, c) of the result is the
\* cell (min(r, h-1-r), min(c, w-1-c)) of the matrix as it was at the call,
\* and the cell an iteration reads still holds the value it had at the call.
C12_InPlaceMirror ==
    /\ (pc = "mmirror4_loop" /\ i < Height(result)) =>
          LET x == Fold(i, Height(result))
              y == Fold(j, Width(result))
          IN  result[x][y] = original[x][y]
    /\ pc = "mirrored" =>
          /\ \A r \in Rows(result), c \in Cols(result) :
                result[r][c] = original[Fold(r, Height(result))][Fold(c, Width(result))]
          /\ result = mmirror4(original)

\* C12 witness: a 4 x 3 matrix of twelve different cells has been mirrored.
C12_Witness ==
    /\ pc = "mirrored"
    /\ original = Tagged(4, 3)
    /\ result # original
    /\ result[2][3] = original[0][0]

\* The call mbuild(width, height) has returned or raised.
MbuildCalled == pc = "built"

\* C14: mbuild(width, height) with width <= 0 or height <= 0 fails with
\* InvalidDimension and returns no matrix; with width >= 1 and height >= 1
\* it returns height rows of width cells, all 0.0.
C14_MbuildRejects ==
    MbuildCalled =>
        IF width <= 0 \/ height <= 0
        THEN exc = InvalidDimension /\ result = None
        ELSE /\ DOMAIN result = 0..(height - 1)
             /\ \A r \in DOMAIN result : result[r] = [c \in 0..(width - 1) |-> Zero]

\* C14 as amended: mbuild never fails; with height <= 0 it returns the
\* empty list, with width <= 0 and height >= 1 it returns height empty
\* rows, and with width >= 1 and height >= 1 it returns height rows of width
\* cells, all 0.0.
C14_MbuildNeverFails ==
    MbuildCalled =>
        /\ exc = NoExc
        /\ DOMAIN result = 0..(height - 1)
        /\ height <= 0 => result = <<>>
        /\ \A r \in DOMAIN result :
              /\ DOMAIN result[r] = 0..(width - 1)
              /\ width <= 0 => result[r] = <<>>
              /\ \A c \in DOMAIN result[r] : result[r][c] = Zero

\* C14 witness: mbuild(0, 2) has returned two empty rows.
C14_Witness ==
    /\ MbuildCalled
    /\ width = 0
    /\ height = 2
    /\ exc = NoExc
    /\ result = [r \in 0..1 |-> <<>>]
====
